---- MODULE Spec2Model ----
(***************************************************************************)
(* A model of three-geojson-cylinders: the GeoJSON -> pipe primitive        *)
(* builder and in-place rebuilder of src/src/lib/pipes.js.                  *)
(*                                                                         *)
(* Representation                                                          *)
(*  - A JavaScript number is a record [fin, v]: fin = FALSE is NaN, and a   *)
(*    finite number is the fixed-point integer v = value * Scale.           *)
(*  - A JavaScript string is a sequence of one-character strings; a         *)
(*    character outside ASCII is written by its code point ("U+6C34").      *)
(*  - A JavaScript value of a property bag is a record [kind, num, str].    *)
(*  - A property bag is a function from the keys it holds to their values.  *)
(*  - An optional field (endpoints, arcData) is a sequence of length 0 or 1.*)
(***************************************************************************)
EXTENDS Integers, Sequences, FiniteSets, TLC

VARIABLES
    doc,        \* the GeoJSON document handed to buildPipesGroupFromGeoJSON
    ret,        \* what buildPipesGroupFromGeoJSON returned (or that it threw)
    children,   \* the primitives of the returned group, in insertion order
    lastCall,   \* the last operation called: its name, its target, its log of
                \* shape-buffer effects, and how many rebuilds of that target
                \* in a row it ends (counted up to 2)
    edits,      \* number of property writes made so far
    props,      \* the property bag handed to chooseRadius
    radius,     \* what chooseRadius returned for props (0 or 1 results)
    colour,     \* the colour resolved for props (0 or 1 results)
    selected,           \* selectedMeshRef.current: 0, or the mesh's index
    highlighted,        \* the highlighted mesh: 0, or its index
    originalMaterial,   \* the material kept while a mesh is highlighted
    layerColorMap,      \* layer -> colour, as the layer panel shows it
    layerVisibilityMap, \* layer -> the layer's checkbox
    editedMeshIds,      \* indices of the meshes marked as edited
    showOnlyEdited,     \* the show-only-edited checkbox
    exported            \* the last exported file (0 or 1 documents)

viewVars == <<selected, highlighted, originalMaterial, layerColorMap,
              layerVisibilityMap, editedMeshIds, showOnlyEdited, exported>>

vars == <<doc, ret, children, lastCall, edits, props, radius, colour,
         viewVars>>

(***************************************************************************)
(* Numbers                                                                 *)
(***************************************************************************)
Scale == 1000 * 1000

Fin(n) == [fin |-> TRUE, v |-> n]
NaN == [fin |-> FALSE, v |-> 0]
Whole(k) == Fin(k * Scale)

isFinite(n) == n.fin
Positive(n) == n.fin /\ n.v > 0

Sub(a, b) == IF a.fin /\ b.fin THEN Fin(a.v - b.v) ELSE NaN
Add(a, b) == IF a.fin /\ b.fin THEN Fin(a.v + b.v) ELSE NaN
DivBy(a, k) == IF a.fin THEN Fin(a.v \div k) ELSE NaN

Abs(i) == IF i < 0 THEN -i ELSE i

RECURSIVE SqrtSearch(_, _, _)
SqrtSearch(n, lo, hi) ==
    IF lo >= hi THEN lo
    ELSE IF ((lo + hi + 1) \div 2) * ((lo + hi + 1) \div 2) <= n
      THEN SqrtSearch(n, (lo + hi + 1) \div 2, hi)
    ELSE SqrtSearch(n, lo, ((lo + hi + 1) \div 2) - 1)

\* Math.hypot on fixed-point numbers, exact to a thousandth.
HypotMilli(x, y) == Fin(1000 * SqrtSearch(x * x + y * y, 0, x + y))

Hypot(a, b) ==
    IF a.fin /\ b.fin
    THEN HypotMilli(Abs(a.v) \div 1000, Abs(b.v) \div 1000)
    ELSE NaN

RECURSIVE GCD(_, _)
GCD(a, b) == IF b = 0 THEN a ELSE GCD(b, a % b)

(***************************************************************************)
(* JavaScript values and strings                                           *)
(***************************************************************************)
Undefined == [kind |-> "undefined", num |-> NaN, str |-> <<>>]
Null == [kind |-> "null", num |-> NaN, str |-> <<>>]
JsNum(n) == [kind |-> "number", num |-> n, str |-> <<>>]
JsStr(s) == [kind |-> "string", num |-> NaN, str |-> s]

\* props?.key : undefined when the bag does not hold the key
Get(bag, key) == IF key \in DOMAIN bag THEN bag[key] ELSE Undefined

\* a ?? b
Coalesce(a, b) == IF a.kind \in {"undefined", "null"} THEN b ELSE a

Digits == <<"0", "1", "2", "3", "4", "5", "6", "7", "8", "9">>
IsDigit(c) == \E i \in 1..10 : Digits[i] = c
DigitValue(c) == (CHOOSE i \in 1..10 : Digits[i] = c) - 1

Upper == <<"A", "B", "C", "D", "E", "F", "G", "H", "I", "J", "K", "L", "M",
           "N", "O", "P", "Q", "R", "S", "T", "U", "V", "W", "X", "Y", "Z">>
Lower == <<"a", "b", "c", "d", "e", "f", "g", "h", "i", "j", "k", "l", "m",
           "n", "o", "p", "q", "r", "s", "t", "u", "v", "w", "x", "y", "z">>

LowerChar(c) ==
    IF \E i \in 1..26 : Upper[i] = c
    THEN Lower[CHOOSE i \in 1..26 : Upper[i] = c]
    ELSE c

toLowerCase(s) == [i \in 1..Len(s) |-> LowerChar(s[i])]

\* s.includes(t)
Includes(s, t) ==
    \E i \in 0..(Len(s) - Len(t)) : \A j \in 1..Len(t) : s[i + j] = t[j]

RECURSIVE Pow10(_)
Pow10(n) == IF n <= 0 THEN 1 ELSE 10 * Pow10(n - 1)

RECURSIVE NatDigits(_)
NatDigits(n) ==
    IF n < 10 THEN <<Digits[n + 1]>>
    ELSE NatDigits(n \div 10) \o <<Digits[(n % 10) + 1]>>

\* the digits of fraction f (in 1/Scale units), trailing zeros dropped
RECURSIVE FracDigits(_, _)
FracDigits(f, unit) ==
    IF f = 0 \/ unit = 0 THEN <<>>
    ELSE <<Digits[(f \div unit) + 1]>> \o FracDigits(f % unit, unit \div 10)

\* Number.prototype.toString on a fixed-point number
PointAndFraction(f) == IF f = <<>> THEN <<>> ELSE <<".">> \o f

NumberToString(n) ==
    IF ~n.fin THEN <<"N", "a", "N">>
    ELSE (IF n.v < 0 THEN <<"-">> ELSE <<>>)
         \o NatDigits(Abs(n.v) \div Scale)
         \o PointAndFraction(FracDigits(Abs(n.v) % Scale, Scale \div 10))

(***************************************************************************)
(* toNumber: src/src/lib/pipes.js 75-80                                     *)
(***************************************************************************)
\* v.replace(/[^\d.+\-eE]/g, '')
KeepNumeric(c) == IsDigit(c) \/ c \in {".", "+", "-", "e", "E"}

RECURSIVE StripNonNumeric(_)
StripNonNumeric(s) ==
    IF s = <<>> THEN <<>>
    ELSE (IF KeepNumeric(Head(s)) THEN <<Head(s)>> ELSE <<>>)
         \o StripNonNumeric(Tail(s))

\* Number(s) for a string of digits, '.', '+', '-', 'e', 'E', read one
\* character at a time: the empty string is 0, a StrDecimalLiteral
\*   [+-] (digits [. [digits]] | . digits) [(e|E) [+-] digits]
\* is its value, anything else is NaN.  st names what was read so far;
\* mant is the mantissa in 1/Scale units and unit the weight of the next
\* fraction digit.
ScaleByExponent(neg, mant, eneg, e) ==
    Fin((IF neg THEN -1 ELSE 1)
        * (IF eneg THEN mant \div Pow10(e) ELSE mant * Pow10(e)))

RECURSIVE Scan(_, _, _, _, _, _, _, _)
Scan(s, i, st, neg, mant, unit, eneg, e) ==
    IF i > Len(s)
    THEN IF st \in {"int", "frac", "exp"}
         THEN ScaleByExponent(neg, mant, eneg, e)
         ELSE NaN
    ELSE CASE st = "start" /\ s[i] \in {"+", "-"} ->
                Scan(s, i + 1, "signed", s[i] = "-", mant, unit, eneg, e)
           [] st \in {"start", "signed", "int"} /\ IsDigit(s[i]) ->
                Scan(s, i + 1, "int", neg,
                     10 * mant + DigitValue(s[i]) * Scale, unit, eneg, e)
           [] st \in {"start", "signed"} /\ s[i] = "." ->
                Scan(s, i + 1, "dot", neg, mant, unit, eneg, e)
           [] st = "int" /\ s[i] = "." ->
                Scan(s, i + 1, "frac", neg, mant, unit, eneg, e)
           [] st \in {"dot", "frac"} /\ IsDigit(s[i]) ->
                Scan(s, i + 1, "frac", neg,
                     mant + DigitValue(s[i]) * unit, unit \div 10, eneg, e)
           [] st \in {"int", "frac"} /\ s[i] \in {"e", "E"} ->
                Scan(s, i + 1, "e", neg, mant, unit, eneg, e)
           [] st = "e" /\ s[i] \in {"+", "-"} ->
                Scan(s, i + 1, "esigned", neg, mant, unit, s[i] = "-", e)
           [] st \in {"e", "esigned", "exp"} /\ IsDigit(s[i]) ->
                Scan(s, i + 1, "exp", neg, mant, unit, eneg,
                     10 * e + DigitValue(s[i]))
           [] OTHER -> NaN

StringToNumber(s) ==
    IF s = <<>> THEN Fin(0)
    ELSE Scan(s, 1, "start", FALSE, 0, Scale \div 10, FALSE, 0)

toNumber(v) ==
    IF v.kind \in {"undefined", "null"} THEN NaN
    ELSE IF v.kind = "number" THEN v.num
    ELSE IF v.kind = "string" THEN StringToNumber(StripNonNumeric(v.str))
    ELSE NaN

(***************************************************************************)
(* chooseRadius: src/src/lib/pipes.js 85-96                                 *)
(***************************************************************************)
MmPerMetre == 1000

\* lines 89-93: radius, or diameter / 2 when radius is not finite and positive
RadiusOrHalfDiameter(r, d) ==
    IF ~(isFinite(r) /\ r.v > 0) /\ isFinite(d) /\ d.v > 0
    THEN DivBy(d, 2)
    ELSE r

\* the unit test with >= for >: 1.0 itself is divided
MmToMetresFromOne(r) ==
    IF isFinite(r) /\ r.v >= Scale THEN DivBy(r, MmPerMetre) ELSE r

\* line 94: a value above 1.0 is taken as millimetres
MmToMetres(r) ==
    IF isFinite(r) /\ r.v > Scale THEN DivBy(r, MmPerMetre) ELSE r

chooseRadius(p) ==
    MmToMetres(RadiusOrHalfDiameter(
        toNumber(Coalesce(Get(p, "radius"), Null)),
        toNumber(Coalesce(Get(p, "diameter"), Null))))

(***************************************************************************)
(* Colours: src/src/lib/pipes.js 101-119                                    *)
(***************************************************************************)
Blue == 2003199          \* 0x1e90ff
Brown == 9127187         \* 0x8b4513
Orange == 16747520       \* 0xff8c00
DarkGray == 6908265      \* 0x696969
Green == 3050327         \* 0x2e8b57
ConcreteGray == 9145219  \* 0x8b8b83
SteelBlue == 8947967     \* 0x8888ff

\* (x || '').toString()
Falsy(v) ==
    \/ v.kind \in {"undefined", "null"}
    \/ v.kind = "string" /\ v.str = <<>>
    \/ v.kind = "number" /\ (~v.num.fin \/ v.num.v = 0)

OrEmptyToString(v) ==
    IF Falsy(v) THEN <<>>
    ELSE IF v.kind = "number" THEN NumberToString(v.num)
    ELSE v.str

\* the layer rules with gas tried before water
LayerRuleGasFirst(l) ==
    IF Includes(l, <<"U+30AC", "U+30B9">>) \/ Includes(l, <<"g", "a", "s">>)
      THEN Orange
    ELSE IF \/ Includes(l, <<"U+6C34", "U+9053">>)
            \/ Includes(l, <<"w", "a", "t", "e", "r">>)
      THEN Blue
    ELSE IF \/ Includes(l, <<"U+4E0B", "U+6C34">>)
            \/ Includes(l, <<"s", "e", "w", "e", "r">>)
      THEN Brown
    ELSE IF \/ Includes(l, <<"U+96FB">>)
            \/ Includes(l, <<"p", "o", "w", "e", "r">>)
            \/ Includes(l, <<"c", "a", "b", "l", "e">>)
      THEN DarkGray
    ELSE Green

\* lines 103-107
LayerRule(l) ==
    IF Includes(l, <<"U+6C34", "U+9053">>) \/ Includes(l, <<"w", "a", "t", "e", "r">>)
      THEN Blue
    ELSE IF Includes(l, <<"U+4E0B", "U+6C34">>) \/ Includes(l, <<"s", "e", "w", "e", "r">>)
      THEN Brown
    ELSE IF Includes(l, <<"U+30AC", "U+30B9">>) \/ Includes(l, <<"g", "a", "s">>)
      THEN Orange
    ELSE IF \/ Includes(l, <<"U+96FB">>)
            \/ Includes(l, <<"p", "o", "w", "e", "r">>)
            \/ Includes(l, <<"c", "a", "b", "l", "e">>)
      THEN DarkGray
    ELSE Green

colorFromLayer(layer) == LayerRule(toLowerCase(OrEmptyToString(layer)))

MaterialRule(m) ==
    IF Includes(m, <<"p", "v">>) \/ Includes(m, <<"p", "v", "c">>)
      THEN Blue
    ELSE IF Includes(m, <<"c", "o", "n">>) \/ Includes(m, <<"r", "c">>)
      THEN ConcreteGray
    ELSE IF \/ Includes(m, <<"d", "i", "p">>)
            \/ Includes(m, <<"d", "u", "c", "t">>)
            \/ Includes(m, <<"s", "t", "e", "e", "l">>)
            \/ Includes(m, <<"s", "t">>)
      THEN SteelBlue
    ELSE Green

colorFromMaterial(material) == MaterialRule(toLowerCase(OrEmptyToString(material)))

\* a ?? b on colours: b only when a is null or undefined, and a colour
\* returned by colorFromLayer is a number on every path
ColourOr(a, b) == IF a \in Int THEN a ELSE b

\* colorFromLayer(props.layer) ?? colorFromMaterial(props.material)
initialColor(p) ==
    ColourOr(colorFromLayer(Get(p, "layer")),
             colorFromMaterial(Get(p, "material")))

(***************************************************************************)
(* Shape buffers, materials and primitives                                 *)
(***************************************************************************)
CylinderGeometry(r, len) ==
    [type |-> "CylinderGeometry", radius |-> r, height |-> len,
     startAngle |-> NaN, endAngle |-> NaN, segments |-> 24]

\* new THREE.BufferGeometry().setFromPoints(curve.getPoints(50))
ArcGeometry(r, a0, a1) ==
    [type |-> "BufferGeometry", radius |-> r, height |-> NaN,
     startAngle |-> a0, endAngle |-> a1, segments |-> 50]

CircleGeometry(r) ==
    [type |-> "CircleGeometry", radius |-> r, height |-> NaN,
     startAngle |-> NaN, endAngle |-> NaN, segments |-> 32]

\* opacity and emissiveIntensity are in thousandths; linewidth is NaN where
\* the material has none; emissive is the colour black until a highlight
SegmentMaterial(color) ==
    [type |-> "MeshStandardMaterial", color |-> color, linewidth |-> NaN,
     transparent |-> TRUE, opacity |-> 750, depthWrite |-> FALSE,
     doubleSide |-> FALSE, emissive |-> 0, emissiveIntensity |-> 1000]

ArcMaterial(color, lineWidth) ==
    [type |-> "LineBasicMaterial", color |-> color, linewidth |-> lineWidth,
     transparent |-> TRUE, opacity |-> 800, depthWrite |-> TRUE,
     doubleSide |-> FALSE, emissive |-> 0, emissiveIntensity |-> 1000]

CircleMaterial(color) ==
    [type |-> "MeshStandardMaterial", color |-> color, linewidth |-> NaN,
     transparent |-> TRUE, opacity |-> 750, depthWrite |-> TRUE,
     doubleSide |-> TRUE, emissive |-> 0, emissiveIntensity |-> 1000]

\* Math.max(0.01, radius * 0.1)
Max(a, b) == IF a > b THEN a ELSE b

lineWidthOf(r) ==
    IF ~r.fin THEN NaN ELSE Fin(Max(Scale \div 100, r.v \div 10))

\* Orientation of a primitive.  "align" is the quaternion that
\* setFromUnitVectors((0,1,0), dir) gives, named by the direction dir:
\* a unit vector is named by the smallest integer vector on its ray.
Identity == [mode |-> "identity", dx |-> 0, dz |-> 0]
Flat == [mode |-> "flat", dx |-> 0, dz |-> 0]     \* rotation.x = -PI / 2
NaNDirection == [mode |-> "nan", dx |-> 0, dz |-> 0]

\* new THREE.Vector3(dx, 0, dz).normalize(), then setFromUnitVectors
Reduced(x, z, g) ==
    IF g = 0 THEN [mode |-> "align", dx |-> 0, dz |-> 0]
    ELSE [mode |-> "align", dx |-> x \div g, dz |-> z \div g]

AlignTo(dx, dz) ==
    IF ~(dx.fin /\ dz.fin) THEN NaNDirection
    ELSE Reduced(dx.v, dz.v, GCD(Abs(dx.v), Abs(dz.v)))

\* [x, y] = p : an entry the array does not hold is undefined, which every
\* later arithmetic step reads as NaN
At(p, i) == IF i <= Len(p) THEN Whole(p[i]) ELSE NaN

\* props.layer ?? ''
LayerOf(p) == Coalesce(Get(p, "layer"), JsStr(<<>>))

Mesh(objType, geo, mat, pos, orient, p, ep, arc) ==
    [objType |-> objType, geometry |-> geo, material |-> mat,
     position |-> pos, orientation |-> orient,
     properties |-> p, layer |-> LayerOf(p),
     endpoints |-> ep, arcData |-> arc,
     visible |-> TRUE]

(***************************************************************************)
(* buildPipeSegment: src/src/lib/pipes.js 229-290                           *)
(* The result is a sequence: empty for null, else the one mesh.            *)
(***************************************************************************)
\* lines 259-289: the mesh, once radius and length are accepted
SegmentMesh(x1, y1, x2, y2, r, length, p) ==
    Mesh("Mesh",
         CylinderGeometry(r, length),
         SegmentMaterial(initialColor(p)),
         <<DivBy(Add(x1, x2), 2), r, DivBy(Add(y1, y2), 2)>>,
         AlignTo(Sub(x2, x1), Sub(y2, y1)),
         p,
         <<[x1 |-> x1, y1 |-> y1, x2 |-> x2, y2 |-> y2]>>,
         <<>>)

\* lines 233-257: the two guards
SegmentOrNull(x1, y1, x2, y2, r, length, p) ==
    IF ~(isFinite(r) /\ r.v > 0) THEN <<>>
    ELSE IF length.fin /\ length.v <= 0 THEN <<>>
    ELSE <<SegmentMesh(x1, y1, x2, y2, r, length, p)>>

SegmentBetween(x1, y1, x2, y2, p) ==
    SegmentOrNull(x1, y1, x2, y2, chooseRadius(p),
                  Hypot(Sub(x2, x1), Sub(y2, y1)), p)

buildPipeSegment(p0, p1, p) ==
    SegmentBetween(At(p0, 1), At(p0, 2), At(p1, 1), At(p1, 2), p)

(***************************************************************************)
(* buildCircleFromPoint: src/src/lib/pipes.js 189-222                       *)
(***************************************************************************)
CircleOrNull(c, r, p) ==
    IF Len(c) < 2 THEN <<>>
    ELSE IF ~(isFinite(r) /\ r.v > 0) THEN <<>>
    ELSE <<Mesh("Mesh",
                CircleGeometry(r),
                CircleMaterial(initialColor(p)),
                <<At(c, 1), Fin(Scale \div 100), At(c, 2)>>,
                Flat,
                p,
                <<>>,
                <<>>)>>

buildCircleFromPoint(c, p) == CircleOrNull(c, chooseRadius(p), p)

(***************************************************************************)
(* buildArcFromPoint: src/src/lib/pipes.js 132-184                          *)
(***************************************************************************)
ArcOrNull(c, r, startAngle, endAngle, p) ==
    IF Len(c) < 2 THEN <<>>
    ELSE IF ~(isFinite(r) /\ r.v > 0) THEN <<>>
    ELSE IF ~(isFinite(startAngle) /\ isFinite(endAngle))
      THEN buildCircleFromPoint(c, p)
    ELSE <<Mesh("Line",
                ArcGeometry(r, startAngle, endAngle),
                ArcMaterial(initialColor(p), lineWidthOf(r)),
                <<At(c, 1), r, At(c, 2)>>,
                Identity,
                p,
                <<>>,
                <<[startAngle |-> startAngle, endAngle |-> endAngle,
                   radius |-> r]>>)>>

buildArcFromPoint(c, p) ==
    ArcOrNull(c, chooseRadius(p), toNumber(Get(p, "startAngle")),
              toNumber(Get(p, "endAngle")), p)

(***************************************************************************)
(* GeoJSON input                                                           *)
(*  - a position is a sequence of whole numbers (an array of numbers);      *)
(*  - coordinates is a record [kind, pos, pts, ring]:                       *)
(*      "absent"     not an array                                           *)
(*      "position"   pos, one position                 [x, y]               *)
(*      "positions"  pts, a sequence of positions      [[x, y], ...]        *)
(*      "ring"       an array holding exactly one sequence of positions     *)
(*                                                     [[[x, y], ...]]      *)
(*  - a geometry is [type, coordinates]; a feature is [geometry,            *)
(*    properties], both optional (a sequence of length 0 or 1);             *)
(*  - a document is [isNull, type, hasFeatures, features, geometry,         *)
(*    properties]: the last two are read when the document is a Feature.    *)
(***************************************************************************)
NoCoordinates == [kind |-> "absent", pos |-> <<>>, pts |-> <<>>, ring |-> <<>>]
OnePosition(p) == [kind |-> "position", pos |-> p, pts |-> <<>>, ring |-> <<>>]
Positions(ps) == [kind |-> "positions", pos |-> <<>>, pts |-> ps, ring |-> <<>>]
OneRing(ps) == [kind |-> "ring", pos |-> <<>>, pts |-> <<>>, ring |-> ps]

\* coords.length
CoordsLength(c) ==
    IF c.kind = "position" THEN Len(c.pos)
    ELSE IF c.kind = "positions" THEN Len(c.pts)
    ELSE IF c.kind = "ring" THEN 1
    ELSE 0

Geometry(type, coordinates) == [type |-> type, coordinates |-> coordinates]
Feature(g, p) == [geometry |-> <<g>>, properties |-> <<p>>]

EmptyBag == [k \in {} |-> Undefined]

\* what a call returned: the meshes, or that it threw
Returned(ms) == [threw |-> FALSE, meshes |-> ms]
Threw == [threw |-> TRUE, meshes |-> <<>>]

(***************************************************************************)
(* meshesFromFeature: src/src/lib/pipes.js 44-70                            *)
(***************************************************************************)
\* the loop with its bound one short: the last pair is never built
RECURSIVE SegmentLoopOneShort(_, _, _)
SegmentLoopOneShort(coords, i, p) ==
    IF i > Len(coords) - 2 THEN <<>>
    ELSE buildPipeSegment(coords[i], coords[i + 1], p)
         \o SegmentLoopOneShort(coords, i + 1, p)

\* the for loop of lines 58-61 over a sequence of positions
RECURSIVE SegmentLoop(_, _, _)
SegmentLoop(coords, i, p) ==
    IF i > Len(coords) - 1 THEN <<>>
    ELSE buildPipeSegment(coords[i], coords[i + 1], p)
         \o SegmentLoop(coords, i + 1, p)

\* line 56: unwrap one level when the array holds one array of arrays
Unwrapped(c) ==
    IF CoordsLength(c) = 1 /\ c.kind = "ring" THEN c.ring ELSE c.pts

\* lines 53-62
LineStringMeshes(c, p) ==
    IF c.kind = "absent" \/ CoordsLength(c) < 2 THEN Returned(<<>>)
    \* const [x1, y1] = p0 on a number: TypeError
    ELSE IF c.kind = "position" THEN Threw
    ELSE Returned(SegmentLoop(Unwrapped(c), 1, p))

\* lines 49-69, with the lower-cased type and the properties in hand
MeshesOfGeometry(type, c, p) ==
    IF Includes(type, <<"l", "i", "n", "e">>)
       /\ Includes(type, <<"s", "t", "r", "i", "n", "g">>)
    THEN LineStringMeshes(c, p)
    ELSE IF type = <<"p", "o", "i", "n", "t">>
            /\ Get(p, "_type") = JsStr(<<"A", "R", "C">>)
    THEN Returned(buildArcFromPoint(c.pos, p))
    ELSE Returned(<<>>)

\* feature.properties || {}
PropertiesOf(feature) ==
    IF feature.properties = <<>> THEN EmptyBag ELSE feature.properties[1]

meshesFromFeature(feature) ==
    IF feature.geometry = <<>> THEN Returned(<<>>)
    ELSE MeshesOfGeometry(toLowerCase(feature.geometry[1].type),
                          feature.geometry[1].coordinates,
                          PropertiesOf(feature))

(***************************************************************************)
(* buildPipesGroupFromGeoJSON: src/src/lib/pipes.js 15-39                   *)
(* The result is [status, group, bounds, meshes]: group and bounds are      *)
(* "null" or the object made; meshes are the children of the group.         *)
(***************************************************************************)
NotCalled == [status |-> "none", group |-> "null", bounds |-> "null"]
NullPair == [status |-> "returned", group |-> "null", bounds |-> "null"]
GroupPair == [status |-> "returned", group |-> "Group", bounds |-> "Box3"]
ThrewError == [status |-> "threw", group |-> "null", bounds |-> "null"]

\* a single Feature read as an empty collection
FeaturesOfCollectionOnly(d) ==
    IF d.type = <<"F", "e", "a", "t", "u", "r", "e", "C", "o", "l", "l",
                  "e", "c", "t", "i", "o", "n">>
    THEN (IF d.hasFeatures THEN d.features ELSE <<>>)
    ELSE <<>>

\* lines 18-22
FeaturesOf(d) ==
    IF d.type = <<"F", "e", "a", "t", "u", "r", "e", "C", "o", "l", "l",
                  "e", "c", "t", "i", "o", "n">>
    THEN (IF d.hasFeatures THEN d.features ELSE <<>>)
    ELSE IF d.type = <<"F", "e", "a", "t", "u", "r", "e">>
    THEN <<[geometry |-> d.geometry, properties |-> d.properties]>>
    ELSE <<>>

\* the loop leaving at the first feature that gives no mesh
BothUntilEmpty(one, rest) ==
    IF one.threw \/ rest.threw THEN Threw
    ELSE IF one.meshes = <<>> THEN Returned(<<>>)
    ELSE Returned(one.meshes \o rest.meshes)

\* the for loop of lines 28-35: the meshes added so far, until a throw
Both(one, rest) ==
    IF one.threw \/ rest.threw THEN Threw
    ELSE Returned(one.meshes \o rest.meshes)

RECURSIVE FeatureLoop(_, _)
FeatureLoop(features, i) ==
    IF i > Len(features) THEN Returned(<<>>)
    ELSE Both(meshesFromFeature(features[i]), FeatureLoop(features, i + 1))

\* lines 37-38
PairOf(all) ==
    IF all.threw THEN [pair |-> ThrewError, meshes |-> <<>>]
    ELSE IF all.meshes = <<>> THEN [pair |-> NullPair, meshes |-> <<>>]
    ELSE [pair |-> GroupPair, meshes |-> all.meshes]

buildPipesGroupFromGeoJSON(d) ==
    IF d.isNull THEN [pair |-> NullPair, meshes |-> <<>>]
    ELSE PairOf(FeatureLoop(FeaturesOf(d), 1))

(***************************************************************************)
(* The rebuilders.  Each gives the mesh after the call and the log of what  *)
(* it did to the shape buffers, in program order.                           *)
(***************************************************************************)
Untouched(mesh) == [mesh |-> mesh, log |-> <<>>]

\* the replacement without the dispose call: the old buffer leaks
ReplaceLogNoDispose == <<"allocate new", "install new">>

\* const oldGeo = mesh.geometry; mesh.geometry = new ...; oldGeo.dispose()
ReplaceLog == <<"allocate new", "install new", "dispose old">>

\* rebuildCircleMesh: src/src/lib/pipes.js 406-419
CircleRebuilt(mesh, r, p) ==
    IF ~(isFinite(r) /\ r.v > 0) THEN Untouched(mesh)
    ELSE [mesh |-> [mesh EXCEPT !.geometry = CircleGeometry(r),
                                !.material.color = initialColor(p)],
          log |-> ReplaceLog]

rebuildCircleMesh(mesh, p) == CircleRebuilt(mesh, chooseRadius(p), p)

\* rebuildArcMesh: src/src/lib/pipes.js 357-401
ArcRebuilt(mesh, r, startAngle, endAngle, p) ==
    IF mesh.arcData = <<>> THEN Untouched(mesh)
    ELSE IF ~(isFinite(r) /\ r.v > 0) THEN Untouched(mesh)
    ELSE IF ~(isFinite(startAngle) /\ isFinite(endAngle))
      THEN rebuildCircleMesh(mesh, p)
    ELSE [mesh |-> [mesh EXCEPT
                      !.geometry = ArcGeometry(r, startAngle, endAngle),
                      !.material.linewidth = lineWidthOf(r),
                      !.material.color = initialColor(p),
                      !.arcData = <<[startAngle |-> startAngle,
                                     endAngle |-> endAngle,
                                     radius |-> r]>>],
          log |-> ReplaceLog]

rebuildArcMesh(mesh, p) ==
    ArcRebuilt(mesh, chooseRadius(p), toNumber(Get(p, "startAngle")),
               toNumber(Get(p, "endAngle")), p)

\* the segment path with the radius test left out of the guard
SegmentRebuiltAnyRadius(mesh, ep, r, len, p) ==
    IF ~(isFinite(len) /\ len.v > 0)
    THEN Untouched(mesh)
    ELSE [mesh |-> [mesh EXCEPT
                      !.geometry = CylinderGeometry(r, len),
                      !.orientation = AlignTo(Sub(ep.x2, ep.x1),
                                              Sub(ep.y2, ep.y1)),
                      !.position = <<DivBy(Add(ep.x1, ep.x2), 2), r,
                                     DivBy(Add(ep.y1, ep.y2), 2)>>,
                      !.material.color = initialColor(p),
                      !.material.transparent = TRUE,
                      !.material.opacity = 750,
                      !.material.depthWrite = FALSE],
          log |-> <<"allocate new", "install new", "dispose old">>]

\* the segment path raising the primitive by its radius on every call
\* (position.y += r for position.set)
SegmentRebuiltDrifting(mesh, ep, r, len, p) ==
    IF ~(isFinite(len) /\ len.v > 0) \/ ~(isFinite(r) /\ r.v > 0)
    THEN Untouched(mesh)
    ELSE [mesh |-> [mesh EXCEPT
                      !.geometry = CylinderGeometry(r, len),
                      !.orientation = AlignTo(Sub(ep.x2, ep.x1),
                                              Sub(ep.y2, ep.y1)),
                      !.position = <<DivBy(Add(ep.x1, ep.x2), 2),
                                     Add(mesh.position[2], r),
                                     DivBy(Add(ep.y1, ep.y2), 2)>>,
                      !.material.color = initialColor(p),
                      !.material.transparent = TRUE,
                      !.material.opacity = 750,
                      !.material.depthWrite = FALSE],
          log |-> <<"allocate new", "install new", "dispose old">>]

\* the segment path stamping userData.layer again from the edited properties
SegmentRebuiltRestamped(mesh, ep, r, len, p) ==
    IF ~(isFinite(len) /\ len.v > 0) \/ ~(isFinite(r) /\ r.v > 0)
    THEN Untouched(mesh)
    ELSE [mesh |-> [mesh EXCEPT
                      !.geometry = CylinderGeometry(r, len),
                      !.orientation = AlignTo(Sub(ep.x2, ep.x1),
                                              Sub(ep.y2, ep.y1)),
                      !.position = <<DivBy(Add(ep.x1, ep.x2), 2), r,
                                     DivBy(Add(ep.y1, ep.y2), 2)>>,
                      !.layer = LayerOf(p),
                      !.material.color = initialColor(p),
                      !.material.transparent = TRUE,
                      !.material.opacity = 750,
                      !.material.depthWrite = FALSE],
          log |-> <<"allocate new", "install new", "dispose old">>]

\* rebuildPipeMeshFromUserData, lines 331-351: the segment path
SegmentRebuilt(mesh, ep, r, len, p) ==
    IF ~(isFinite(len) /\ len.v > 0) \/ ~(isFinite(r) /\ r.v > 0)
    THEN Untouched(mesh)
    ELSE [mesh |-> [mesh EXCEPT
                      !.geometry = CylinderGeometry(r, len),
                      !.orientation = AlignTo(Sub(ep.x2, ep.x1),
                                              Sub(ep.y2, ep.y1)),
                      !.position = <<DivBy(Add(ep.x1, ep.x2), 2), r,
                                     DivBy(Add(ep.y1, ep.y2), 2)>>,
                      !.material.color = initialColor(p),
                      !.material.transparent = TRUE,
                      !.material.opacity = 750,
                      !.material.depthWrite = FALSE],
          log |-> ReplaceLog]

rebuildSegmentMesh(mesh, ep, p) ==
    SegmentRebuilt(mesh, ep, chooseRadius(p),
                   Hypot(Sub(ep.x2, ep.x1), Sub(ep.y2, ep.y1)), p)

\* the dispatch taking a primitive without provenance for a disk to rebuild
rebuildDisksToo(mesh) ==
    IF mesh.arcData # <<>> THEN rebuildArcMesh(mesh, mesh.properties)
    ELSE IF mesh.endpoints = <<>>
      THEN (IF isFinite(toNumber(Get(mesh.properties, "startAngle")))
               /\ isFinite(toNumber(Get(mesh.properties, "endAngle")))
            THEN ArcRebuilt([mesh EXCEPT !.arcData = <<[startAngle |-> Fin(0),
                                                        endAngle |-> Fin(0),
                                                        radius |-> Fin(0)]>>],
                            chooseRadius(mesh.properties),
                            toNumber(Get(mesh.properties, "startAngle")),
                            toNumber(Get(mesh.properties, "endAngle")),
                            mesh.properties)
            ELSE Untouched(mesh))
    ELSE rebuildSegmentMesh(mesh, mesh.endpoints[1], mesh.properties)

\* rebuildPipeMeshFromUserData: src/src/lib/pipes.js 297-352
rebuildPipeMeshFromUserData(mesh) ==
    IF mesh.arcData # <<>> THEN rebuildArcMesh(mesh, mesh.properties)
    ELSE IF mesh.endpoints = <<>> THEN Untouched(mesh)
    ELSE rebuildSegmentMesh(mesh, mesh.endpoints[1], mesh.properties)

(***************************************************************************)
(* Bounds of the checked instances                                         *)
(***************************************************************************)
MaxPoints == 3      \* longest coordinate list of a generated LineString
MaxFeatures == 2    \* longest generated FeatureCollection
MaxEdits == 2       \* property writes per behaviour
MaxHalves == 5      \* chooseRadius inputs run over -1/2, 0, 1/2, .. MaxHalves/2

(***************************************************************************)
(* Input values                                                            *)
(***************************************************************************)
SeqsUpTo(S, n) == UNION {[1..k -> S] : k \in 0..n}

LineStringType == <<"L", "i", "n", "e", "S", "t", "r", "i", "n", "g">>
PointType == <<"P", "o", "i", "n", "t">>
PolygonType == <<"P", "o", "l", "y", "g", "o", "n">>
ARC == JsStr(<<"A", "R", "C">>)

WaterPipeLayer == JsStr(<<"U+6C34", "U+9053", "U+7BA1">>)
UnknownLayer == JsStr(<<"u", "n", "k", "n", "o", "w", "n">>)
GasLayer == JsStr(<<"g", "a", "s">>)
Steel == JsStr(<<"s", "t", "e", "e", "l">>)
PVC == JsStr(<<"P", "V", "C">>)
Half == Fin(Scale \div 2)
OneAndHalf == Fin(Scale + Scale \div 2)

\* property bags of the generated features
BagWater == ("radius" :> JsNum(OneAndHalf)) @@ ("layer" :> WaterPipeLayer)
            @@ ("material" :> Steel)
BagPVC == ("diameter" :> JsStr(<<"3", "0", "0", "m", "m">>))
          @@ ("layer" :> UnknownLayer) @@ ("material" :> PVC)
BagNoRadius == ("layer" :> GasLayer) @@ ("note" :> JsStr(<<"x">>))
BagArc == ("_type" :> ARC) @@ ("radius" :> JsNum(Half))
          @@ ("startAngle" :> JsNum(Fin(0)))
          @@ ("endAngle" :> JsStr(<<"1", ".", "5">>))
          @@ ("layer" :> GasLayer)
BagDisk == ("_type" :> ARC) @@ ("radius" :> JsNum(Half))
           @@ ("material" :> PVC)
BagPoint == ("radius" :> JsNum(Half)) @@ ("startAngle" :> JsNum(Fin(0)))
            @@ ("endAngle" :> JsNum(Whole(1)))
BagArcNoRadius == ("_type" :> ARC) @@ ("startAngle" :> JsNum(Fin(0)))
                  @@ ("endAngle" :> JsNum(Whole(1)))

LineBags == {BagWater, BagPVC, BagNoRadius}
PointBags == {BagArc, BagDisk, BagPoint, BagArcNoRadius}

\* positions: three corners of a 3-4-5 triangle, and one with y missing
PositionSet == {<<0, 0>>, <<3, 0>>, <<3, 4>>, <<0>>}
PositionLists == SeqsUpTo(PositionSet, MaxPoints)

WideFeatures ==
    {Feature(Geometry(LineStringType, Positions(ps)), b) :
        ps \in PositionLists, b \in LineBags}
    \cup {Feature(Geometry(LineStringType, OneRing(ps)), b) :
            ps \in PositionLists, b \in LineBags}
    \cup {Feature(Geometry(LineStringType, c), BagWater) :
            c \in {NoCoordinates, OnePosition(<<3, 4>>), OnePosition(<<3>>)}}
    \cup {Feature(Geometry(PointType, c), b) :
            c \in {OnePosition(<<3, 4>>), OnePosition(<<3>>), NoCoordinates},
            b \in PointBags}
    \cup {Feature(Geometry(PolygonType, OneRing(<<<<0, 0>>, <<3, 0>>, <<3, 4>>>>)),
                  BagWater)}
    \cup {[geometry |-> <<>>, properties |-> <<BagWater>>],
          [geometry |-> <<Geometry(LineStringType,
                                   Positions(<<<<0, 0>>, <<3, 4>>>>))>>,
           properties |-> <<>>]}

\* the features the generated collections mix
TwoSegments == Feature(Geometry(LineStringType,
                   Positions(<<<<0, 0>>, <<3, 0>>, <<3, 4>>>>)), BagWater)
RepeatedPoint == Feature(Geometry(LineStringType,
                   Positions(<<<<0, 0>>, <<0, 0>>, <<3, 4>>>>)), BagPVC)
ArcPoint == Feature(Geometry(PointType, OnePosition(<<3, 4>>)), BagArc)
DiskPoint == Feature(Geometry(PointType, OnePosition(<<0, 0>>)), BagDisk)
PlainPoint == Feature(Geometry(PointType, OnePosition(<<3, 0>>)), BagPoint)
Polygon == Feature(Geometry(PolygonType,
                   OneRing(<<<<0, 0>>, <<3, 0>>, <<3, 4>>>>)), BagWater)
OnePointLine == Feature(Geometry(LineStringType, Positions(<<<<3, 4>>>>)),
                        BagWater)
NoRadiusLine == Feature(Geometry(LineStringType,
                   Positions(<<<<0, 0>>, <<3, 4>>>>)), BagNoRadius)
HalfPointLine == Feature(Geometry(LineStringType,
                   Positions(<<<<0, 0>>, <<3>>>>)), BagPVC)

MixFeatures == {TwoSegments, RepeatedPoint, ArcPoint, DiskPoint, PlainPoint,
                Polygon, OnePointLine, NoRadiusLine}

FeatureCollectionType == <<"F", "e", "a", "t", "u", "r", "e", "C", "o", "l",
                           "l", "e", "c", "t", "i", "o", "n">>
FeatureType == <<"F", "e", "a", "t", "u", "r", "e">>
GeometryCollectionType == <<"G", "e", "o", "m", "e", "t", "r", "y", "C", "o",
                            "l", "l", "e", "c", "t", "i", "o", "n">>

NullDocument ==
    [isNull |-> TRUE, type |-> <<>>, hasFeatures |-> FALSE, features |-> <<>>,
     geometry |-> <<>>, properties |-> <<>>]
Collection(fs) ==
    [isNull |-> FALSE, type |-> FeatureCollectionType, hasFeatures |-> TRUE,
     features |-> fs, geometry |-> <<>>, properties |-> <<>>]
SingleFeature(f) ==
    [isNull |-> FALSE, type |-> FeatureType, hasFeatures |-> FALSE,
     features |-> <<>>, geometry |-> f.geometry, properties |-> f.properties]
\* a document of another type, or a FeatureCollection without features
OtherDocuments ==
    {[isNull |-> FALSE, type |-> t, hasFeatures |-> h, features |-> fs,
      geometry |-> TwoSegments.geometry, properties |-> TwoSegments.properties] :
        t \in {GeometryCollectionType, <<>>}, h \in BOOLEAN,
        fs \in {<<>>, <<TwoSegments>>}}
    \cup {[isNull |-> FALSE, type |-> FeatureCollectionType,
           hasFeatures |-> FALSE, features |-> <<>>,
           geometry |-> TwoSegments.geometry,
           properties |-> TwoSegments.properties]}

Documents ==
    {NullDocument} \cup OtherDocuments
    \cup {SingleFeature(f) : f \in WideFeatures}
    \cup {Collection(fs) : fs \in SeqsUpTo(MixFeatures, MaxFeatures)}

\* the documents whose primitives are edited and rebuilt
SampleDocuments ==
    {Collection(<<TwoSegments, ArcPoint>>),
     Collection(<<DiskPoint, HalfPointLine>>),
     SingleFeature(RepeatedPoint)}

\* what a property write may write: key and value
EditSet ==
    {<<"radius", JsStr(<<>>)>>,
     <<"radius", JsStr(<<"0", ".", "5">>)>>,
     <<"diameter", JsStr(<<"3", "0", "0">>)>>,
     <<"layer", GasLayer>>,
     <<"material", PVC>>,
     <<"startAngle", JsStr(<<>>)>>,
     <<"startAngle", JsStr(<<"1">>)>>,
     <<"endAngle", JsStr(<<"n", "o", "n", "e">>)>>,
     <<"endAngle", JsStr(<<"a", "b", "c">>)>>,
     <<"endAngle", JsStr(<<"2">>)>>}

\* layer and material texts for the colour rules
LayerTexts ==
    {WaterPipeLayer, UnknownLayer, GasLayer, JsStr(<<>>),
     JsStr(<<"W", "a", "t", "e", "r", " ", "M", "a", "i", "n">>),
     JsStr(<<"S", "E", "W", "E", "R">>),
     JsStr(<<"U+4E0B", "U+6C34", "U+9053">>),
     JsStr(<<"U+4E0B", "U+6C34">>),
     JsStr(<<"U+30AC", "U+30B9", "U+7BA1">>),
     JsStr(<<"U+96FB", "U+529B">>),
     JsStr(<<"P", "o", "w", "e", "r">>),
     JsStr(<<"c", "a", "b", "l", "e", "s">>),
     JsStr(<<"s", "e", "w", "e", "r", " ", "g", "a", "s">>),
     JsStr(<<"g", "a", "s", " ", "c", "a", "b", "l", "e">>),
     JsStr(<<"w", "a", "t", "e", "r", "-", "g", "a", "s">>)}
MaterialTexts == {Steel, PVC, JsStr(<<"R", "C">>), JsStr(<<"w", "o", "o", "d">>)}
ColourBags ==
    {("layer" :> l) @@ ("material" :> m) : l \in LayerTexts, m \in MaterialTexts}
    \cup {("layer" :> l) : l \in LayerTexts}
    \cup {("material" :> m) : m \in MaterialTexts}

\* what the viewer's session loads
ViewDocuments ==
    {Collection(<<TwoSegments>>),
     Collection(<<DiskPoint, HalfPointLine>>)}

\* what the panel's inputs may write: key and text
ViewEdits ==
    {<<"radius", JsStr(<<"0", ".", "5">>)>>,
     <<"layer", GasLayer>>}

\* what the layer panel's colour input may pick
PickedColours == {Brown}

HalvesInputs == {JsNum(Fin(h * (Scale \div 2))) : h \in -1..MaxHalves}
RadiusValues ==
    HalvesInputs
    \cup {Undefined, Null, JsNum(NaN), JsNum(Fin(Scale + 1)),
          JsStr(<<>>), JsStr(<<"1", ".", "5">>), JsStr(<<"n", "o", "n", "e">>)}
DiameterValues ==
    HalvesInputs
    \cup {Undefined, JsNum(Whole(300)), JsStr(<<"3", "0", "0", "m", "m">>),
          JsStr(<<"-", "2">>)}

RadiusBags ==
    {("radius" :> r) @@ ("diameter" :> d) : r \in RadiusValues, d \in DiameterValues}
    \cup {"diameter" :> d : d \in DiameterValues}
    \cup {"radius" :> r : r \in RadiusValues}
    \cup {EmptyBag}

(***************************************************************************)
(* The state machine                                                       *)
(***************************************************************************)
NoCall == [op |-> "none", target |-> 0, log |-> <<>>, streak |-> 0]

\* calls of rebuildPipeMeshFromUserData on primitive i since its properties
\* were last written, this one included, counted up to 2
StreakAfter(i) ==
    IF lastCall.op \in {"rebuild", "edit"} /\ lastCall.target = i
    THEN 2 ELSE 1

NoMap == [l \in {} |-> 0]

InitWith(d, p) ==
    /\ doc = d
    /\ ret = NotCalled
    /\ children = <<>>
    /\ lastCall = NoCall
    /\ edits = 0
    /\ props = p
    /\ radius = <<>>
    /\ colour = <<>>
    /\ selected = 0
    /\ highlighted = 0
    /\ originalMaterial = <<>>
    /\ layerColorMap = NoMap
    /\ layerVisibilityMap = NoMap
    /\ editedMeshIds = {}
    /\ showOnlyEdited = FALSE
    /\ exported = <<>>

\* a session of the exported interface: a sample document is built, then
\* its primitives are written to and rebuilt
Init == \E d \in SampleDocuments : InitWith(d, EmptyBag)

\* obj.isMesh && obj.geometry && obj.geometry.type === 'CylinderGeometry'
IsCylinderMesh(m) ==
    m.objType = "Mesh" /\ m.geometry.type = "CylinderGeometry"

\* obj.userData?.layer || ''
ObjLayer(m) == IF Falsy(m.layer) THEN JsStr(<<>>) ELSE m.layer

\* the layers loadAndAdd's traverse gives a row: src/unnamed/part_000 143-155
RowLayers(meshes) ==
    {ObjLayer(meshes[i]) : i \in {j \in 1..Len(meshes) :
        IsCylinderMesh(meshes[j]) /\ ~Falsy(meshes[j].layer)}}

FirstOfLayer(meshes, l) ==
    CHOOSE i \in 1..Len(meshes) :
        /\ IsCylinderMesh(meshes[i]) /\ ObjLayer(meshes[i]) = l
        /\ \A j \in 1..(i - 1) :
              ~(IsCylinderMesh(meshes[j]) /\ ObjLayer(meshes[j]) = l)

\* colorMap[layer] = '#' + obj.material.color.getHexString(), kept as the
\* 24-bit colour the hex text spells
ColorMapOf(meshes) ==
    [l \in RowLayers(meshes) |-> meshes[FirstOfLayer(meshes, l)].material.color]

VisibilityMapOf(meshes) == [l \in RowLayers(meshes) |-> TRUE]

\* loadAndAdd(json): src/unnamed/part_000 132-171
Load ==
    /\ ret.status = "none"
    /\ ret' = buildPipesGroupFromGeoJSON(doc).pair
    /\ children' = buildPipesGroupFromGeoJSON(doc).meshes
    /\ layerColorMap' = ColorMapOf(buildPipesGroupFromGeoJSON(doc).meshes)
    /\ layerVisibilityMap' =
          VisibilityMapOf(buildPipesGroupFromGeoJSON(doc).meshes)
    /\ lastCall' = [op |-> "build", target |-> 0, log |-> <<>>, streak |-> 0]
    /\ UNCHANGED <<doc, edits, props, radius, colour, selected, highlighted,
                   originalMaterial, editedMeshIds, showOnlyEdited, exported>>

\* the properties after { ...properties, [key]: value }
Written(mesh, key, value) ==
    [mesh EXCEPT !.properties = (key :> value) @@ mesh.properties]

\* the children as if the segments of one feature shared one property bag
\* (userData.properties = props, without the spread copy) that the write
\* changed in place
WithSharedBag(meshes, i, m) ==
    [j \in 1..Len(meshes) |->
       IF j = i THEN m
       ELSE IF meshes[j].properties = meshes[i].properties
         THEN [meshes[j] EXCEPT !.properties = m.properties]
       ELSE meshes[j]]

\* the children after the object children[i] was changed to m.  No other
\* child is touched: every mesh owns its userData, property bag, geometry
\* and material, each made by new or by { ...props } at build
\* (src/src/lib/pipes.js 259-287), and a write replaces the bag by a new
\* object (src/unnamed/part_000 327-328).
WithMesh(meshes, i, m) == [meshes EXCEPT ![i] = m]

\* a caller of the exported interface writes one key of a primitive's
\* property bag (mesh.userData.properties, as in src/unnamed/part_000
\* 327-328) and calls rebuildPipeMeshFromUserData later
SetProperty(i, key, value) ==
    /\ ret.status = "returned"
    /\ i \in 1..Len(children)
    /\ edits < MaxEdits
    /\ children' = WithMesh(children, i, Written(children[i], key, value))
    /\ edits' = edits + 1
    /\ lastCall' = [op |-> "write", target |-> i, log |-> <<>>, streak |-> 0]
    /\ UNCHANGED <<doc, ret, props, radius, colour, viewVars>>

\* a call of rebuildPipeMeshFromUserData(mesh): src/src/lib/pipes.js 297
Rebuild(i) ==
    /\ ret.status = "returned"
    /\ i \in 1..Len(children)
    /\ children' = WithMesh(children, i,
                             rebuildPipeMeshFromUserData(children[i]).mesh)
    /\ lastCall' = [op |-> "rebuild", target |-> i,
                    log |-> rebuildPipeMeshFromUserData(children[i]).log,
                    streak |-> StreakAfter(i)]
    /\ UNCHANGED <<doc, ret, edits, props, radius, colour, viewVars>>

Next ==
    \/ Load
    \/ \E i \in 1..Len(children), e \in EditSet : SetProperty(i, e[1], e[2])
    \/ \E i \in 1..Len(children) : Rebuild(i)

Spec == Init /\ [][Next]_vars

\* buildPipesGroupFromGeoJSON over the generated documents
BuildInit == \E d \in Documents : InitWith(d, EmptyBag)
BuildNext == Load
BuildSpec == BuildInit /\ [][BuildNext]_vars

\* chooseRadius over the generated property bags
RadiusInit == \E p \in RadiusBags : InitWith(NullDocument, p)
ApplyChooseRadius ==
    /\ radius = <<>>
    /\ radius' = <<chooseRadius(props)>>
    /\ UNCHANGED <<doc, ret, children, lastCall, edits, props, colour,
                   viewVars>>
RadiusNext == ApplyChooseRadius
RadiusSpec == RadiusInit /\ [][RadiusNext]_vars


\* the colour resolution of the builders and rebuilders over the generated
\* layer and material texts
ColourInit == \E p \in ColourBags : InitWith(NullDocument, p)
ApplyInitialColor ==
    /\ colour = <<>>
    /\ colour' = <<initialColor(props)>>
    /\ UNCHANGED <<doc, ret, children, lastCall, edits, props, radius,
                   viewVars>>
ColourNext == ApplyInitialColor
ColourSpec == ColourInit /\ [][ColourNext]_vars

(***************************************************************************)
(* The viewer's handlers: src/unnamed/part_000                             *)
(***************************************************************************)
Yellow == 16776960       \* 0xffff00
HighlightIntensity == 600

ViewCall(op, target) ==
    [op |-> op, target |-> target, log |-> <<>>, streak |-> 0]

\* clearHighlight(): lines 68-74, as it leaves the meshes
Cleared(meshes) ==
    IF highlighted # 0 /\ originalMaterial # <<>>
    THEN [meshes EXCEPT ![highlighted].material = originalMaterial[1]]
    ELSE meshes

\* originalMaterial.clone() with its emissive set: lines 82-84
HighlightClone(material) ==
    [material EXCEPT !.emissive = Yellow,
                     !.emissiveIntensity = HighlightIntensity]

\* setHighlight(mesh) for a mesh that is not the highlighted one: 78-85
Highlit(meshes, hit) ==
    [Cleared(meshes) EXCEPT ![hit].material =
        HighlightClone(Cleared(meshes)[hit].material)]

\* onClick(e): lines 88-105.  hit is the first CylinderGeometry mesh the ray
\* meets, 0 when it meets none.
onClick(hit) ==
    /\ hit = 0 \/ (hit \in 1..Len(children) /\ IsCylinderMesh(children[hit]))
    /\ children' = IF hit = 0 THEN Cleared(children)
                   ELSE IF highlighted = hit THEN children
                   ELSE Highlit(children, hit)
    /\ originalMaterial' = IF hit = 0 THEN <<>>
                           ELSE IF highlighted = hit THEN originalMaterial
                           ELSE <<Cleared(children)[hit].material>>
    /\ highlighted' = hit
    /\ selected' = hit
    /\ lastCall' = ViewCall("click", 0)
    /\ UNCHANGED <<doc, ret, edits, props, radius, colour, layerColorMap,
                   layerVisibilityMap, editedMeshIds, showOnlyEdited,
                   exported>>

\* onChangeField(key, value): lines 324-334.  The panel has one input per
\* key of the selected mesh's properties, and an input writes text.
onChangeField(key, value) ==
    /\ selected # 0
    /\ key \in DOMAIN children[selected].properties
    /\ value.kind = "string"
    /\ edits < MaxEdits
    /\ children' = WithMesh(children, selected,
          rebuildPipeMeshFromUserData(
              Written(children[selected], key, value)).mesh)
    /\ editedMeshIds' = editedMeshIds \cup {selected}
    /\ edits' = edits + 1
    /\ lastCall' = [op |-> "edit", target |-> selected,
                    log |-> rebuildPipeMeshFromUserData(
                              Written(children[selected], key, value)).log,
                    streak |-> 1]
    /\ UNCHANGED <<doc, ret, props, radius, colour, selected, highlighted,
                   originalMaterial, layerColorMap, layerVisibilityMap,
                   showOnlyEdited, exported>>

\* the traverse of updateLayerColor: lines 342-349
Recoloured(meshes, layer, color) ==
    [i \in 1..Len(meshes) |->
       IF IsCylinderMesh(meshes[i]) /\ ObjLayer(meshes[i]) = layer
       THEN [meshes[i] EXCEPT !.material.color = color]
       ELSE meshes[i]]

\* updateLayerColor(layer, hex): lines 337-350, hex read as its colour
updateLayerColor(layer, color) ==
    /\ ret.group = "Group"
    /\ layer \in DOMAIN layerColorMap
    /\ layerColorMap' = [layerColorMap EXCEPT ![layer] = color]
    /\ children' = Recoloured(children, layer, color)
    /\ lastCall' = ViewCall("colour", 0)
    /\ UNCHANGED <<doc, ret, edits, props, radius, colour, selected, highlighted,
                   originalMaterial, layerVisibilityMap, editedMeshIds,
                   showOnlyEdited, exported>>

\* the traverse of toggleLayerVisibility: lines 235-242
LayerShown(meshes, layer, newVisibility) ==
    [i \in 1..Len(meshes) |->
       IF IsCylinderMesh(meshes[i]) /\ ObjLayer(meshes[i]) = layer
       THEN [meshes[i] EXCEPT !.visible =
               newVisibility /\ (~showOnlyEdited \/ i \in editedMeshIds)]
       ELSE meshes[i]]

\* toggleLayerVisibility(layer): lines 228-243
toggleLayerVisibility(layer) ==
    /\ ret.group = "Group"
    /\ layer \in DOMAIN layerColorMap
    /\ layerVisibilityMap' =
          (layer :> ~layerVisibilityMap[layer]) @@ layerVisibilityMap
    /\ children' = LayerShown(children, layer, ~layerVisibilityMap[layer])
    /\ lastCall' = ViewCall("visibility", 0)
    /\ UNCHANGED <<doc, ret, edits, props, radius, colour, selected, highlighted,
                   originalMaterial, layerColorMap, editedMeshIds,
                   showOnlyEdited, exported>>

\* layerVisibilityMap[objLayer] !== false
LayerVisible(layer) ==
    IF layer \in DOMAIN layerVisibilityMap THEN layerVisibilityMap[layer]
    ELSE TRUE

\* the traverse of toggleShowOnlyEdited: lines 253-265
OnlyEditedShown(meshes, newShowOnlyEdited) ==
    [i \in 1..Len(meshes) |->
       IF IsCylinderMesh(meshes[i])
       THEN [meshes[i] EXCEPT !.visible =
               IF newShowOnlyEdited
               THEN LayerVisible(ObjLayer(meshes[i])) /\ i \in editedMeshIds
               ELSE LayerVisible(ObjLayer(meshes[i]))]
       ELSE meshes[i]]

\* toggleShowOnlyEdited(): lines 246-266.  Its checkbox is in the layer
\* panel, which is there when layerColorMap has a key (line 380).
toggleShowOnlyEdited ==
    /\ ret.group = "Group"
    /\ DOMAIN layerColorMap # {}
    /\ showOnlyEdited' = ~showOnlyEdited
    /\ children' = OnlyEditedShown(children, ~showOnlyEdited)
    /\ lastCall' = ViewCall("only-edited", 0)
    /\ UNCHANGED <<doc, ret, edits, props, radius, colour, selected, highlighted,
                   originalMaterial, layerColorMap, layerVisibilityMap,
                   editedMeshIds, exported>>

\* JSON.stringify of a number: null for NaN and for undefined in an array
JsonNumber(n) == IF n.fin THEN JsNum(n) ELSE Null

\* JSON.stringify of a property value
JsonValue(v) == IF v.kind = "number" THEN JsonNumber(v.num) ELSE v

\* JSON.stringify of { ...props }: a key whose value is undefined is left out
JsonBag(bag) ==
    [k \in {key \in DOMAIN bag : bag[key].kind # "undefined"} |->
       JsonValue(bag[k])]

\* the feature of lines 280-287, as line 298 writes it
ExportedFeature(m) ==
    [type |-> FeatureType,
     geometry |->
       [type |-> LineStringType,
        coordinates |->
          <<<<JsonNumber(m.endpoints[1].x1), JsonNumber(m.endpoints[1].y1)>>,
            <<JsonNumber(m.endpoints[1].x2), JsonNumber(m.endpoints[1].y2)>>>>],
     properties |-> JsonBag(m.properties)]

\* the traverse of exportGeoJSON: lines 275-290
RECURSIVE ExportedFeatures(_, _)
ExportedFeatures(meshes, i) ==
    IF i > Len(meshes) THEN <<>>
    ELSE (IF IsCylinderMesh(meshes[i]) /\ meshes[i].endpoints # <<>>
          THEN <<ExportedFeature(meshes[i])>> ELSE <<>>)
         \o ExportedFeatures(meshes, i + 1)

\* exportGeoJSON(): lines 269-307
exportGeoJSON ==
    /\ ret.group = "Group"
    /\ exported' = <<[type |-> FeatureCollectionType,
                      features |-> ExportedFeatures(children, 1)]>>
    /\ lastCall' = ViewCall("export", 0)
    /\ UNCHANGED <<doc, ret, children, edits, props, radius, colour, selected,
                   highlighted, originalMaterial, layerColorMap,
                   layerVisibilityMap, editedMeshIds, showOnlyEdited>>

\* a viewer session: a document is loaded, then the handlers run
ViewInit == \E d \in ViewDocuments : InitWith(d, EmptyBag)

ViewNext ==
    \/ Load
    \/ \E hit \in 0..Len(children) : onClick(hit)
    \/ \E e \in ViewEdits : onChangeField(e[1], e[2])
    \/ \E l \in DOMAIN layerColorMap, c \in PickedColours :
          updateLayerColor(l, c)
    \/ \E l \in DOMAIN layerColorMap : toggleLayerVisibility(l)
    \/ toggleShowOnlyEdited
    \/ exportGeoJSON

ViewSpec == ViewInit /\ [][ViewNext]_vars

(***************************************************************************)
(* Properties of the builder (checked under BuildSpec)                     *)
(***************************************************************************)
Loaded == ret.status = "returned"

\* the features a document is read as: the features of a FeatureCollection,
\* a Feature as a collection of one, nothing for anything else
DocumentFeatures(d) ==
    IF d.isNull THEN <<>>
    ELSE IF d.type = FeatureCollectionType /\ d.hasFeatures THEN d.features
    ELSE IF d.type = FeatureType
      THEN <<[geometry |-> d.geometry, properties |-> d.properties]>>
    ELSE <<>>

BagOf(f) == IF f.properties = <<>> THEN EmptyBag ELSE f.properties[1]

\* a LineString feature with N >= 2 coordinates and a resolvable radius
IsPipeLine(f) ==
    /\ f.geometry # <<>>
    /\ f.geometry[1].type = LineStringType
    /\ f.geometry[1].coordinates.kind = "positions"
    /\ Len(f.geometry[1].coordinates.pts) >= 2
    /\ Positive(chooseRadius(BagOf(f)))

EndpointsOf(a, b) ==
    [x1 |-> At(a, 1), y1 |-> At(a, 2), x2 |-> At(b, 1), y2 |-> At(b, 2)]

\* coordinates i and i+1 do not coincide
Apart(a, b) == At(a, 1) # At(b, 1) \/ At(a, 2) # At(b, 2)

AllApart(ps) == \A i \in 1..(Len(ps) - 1) : Apart(ps[i], ps[i + 1])

\* the endpoints of every consecutive pair of ps, in order
ConsecutivePairs(ps) == [i \in 1..(Len(ps) - 1) |-> EndpointsOf(ps[i], ps[i + 1])]

RECURSIVE PairsOfAll(_, _)
PairsOfAll(fs, i) ==
    IF i > Len(fs) THEN <<>>
    ELSE ConsecutivePairs(fs[i].geometry[1].coordinates.pts)
         \o PairsOfAll(fs, i + 1)

IsSegment(m) ==
    /\ m.geometry.type = "CylinderGeometry"
    /\ m.endpoints # <<>>
    /\ m.arcData = <<>>

SegmentsMatch(pairs) ==
    /\ Len(children) = Len(pairs)
    /\ \A i \in 1..Len(children) :
          IsSegment(children[i]) /\ children[i].endpoints = <<pairs[i]>>

AllPipeLines(d) ==
    /\ DocumentFeatures(d) # <<>>
    /\ \A i \in 1..Len(DocumentFeatures(d)) : IsPipeLine(DocumentFeatures(d)[i])

\* C1 as stated: every LineString feature with N >= 2 coordinates and a
\* resolvable positive radius gives exactly N-1 segment primitives, the i-th
\* with the endpoints of coordinates i and i+1.
C1_EveryPairBuilt ==
    (Loaded /\ AllPipeLines(doc))
        => SegmentsMatch(PairsOfAll(DocumentFeatures(doc), 1))

\* C1 amended: every LineString feature with N >= 2 coordinates, a resolvable
\* positive radius and no two consecutive coordinates that coincide gives
\* exactly N-1 segment primitives, the i-th with the endpoints of
\* coordinates i and i+1, in order.
C1_DistinctPairsBuilt ==
    (/\ Loaded
     /\ AllPipeLines(doc)
     /\ \A i \in 1..Len(DocumentFeatures(doc)) :
           AllApart(DocumentFeatures(doc)[i].geometry[1].coordinates.pts))
        => SegmentsMatch(PairsOfAll(DocumentFeatures(doc), 1))

\* C1 witness: a loaded three-point LineString with distinct neighbours and
\* its two segments.
C1_Witness ==
    /\ Loaded
    /\ AllPipeLines(doc)
    /\ \A i \in 1..Len(DocumentFeatures(doc)) :
          AllApart(DocumentFeatures(doc)[i].geometry[1].coordinates.pts)
    /\ Len(DocumentFeatures(doc)[1].geometry[1].coordinates.pts) = 3
    /\ Len(children) >= 2

\* C2 as stated: a primitive whose layer matches no layer rule takes the
\* colour of the material rule set (unknown layer, PVC material: PVC blue),
\* at build and at every successful rebuild.
LayerUnmatched(p) == colorFromLayer(Get(p, "layer")) = Green

FreshlyColoured(i) ==
    \/ lastCall.op = "build"
    \/ lastCall.op = "rebuild" /\ lastCall.target = i /\ lastCall.log # <<>>

C2_MaterialFallback ==
    Loaded =>
      \A i \in 1..Len(children) :
        (FreshlyColoured(i) /\ LayerUnmatched(children[i].properties))
          => children[i].material.color
               = colorFromMaterial(Get(children[i].properties, "material"))

\* C4 as stated: a LineString whose coordinates are one ring of M >= 2 points
\* is unwrapped and gives one segment per consecutive pair of the ring.
IsRingLine(f) ==
    /\ f.geometry # <<>>
    /\ f.geometry[1].type = LineStringType
    /\ f.geometry[1].coordinates.kind = "ring"
    /\ Len(f.geometry[1].coordinates.ring) >= 2
    /\ AllApart(f.geometry[1].coordinates.ring)
    /\ Positive(chooseRadius(BagOf(f)))

C4_RingUnwrapped ==
    (Loaded /\ doc.type = FeatureType /\ IsRingLine(DocumentFeatures(doc)[1]))
        => SegmentsMatch(ConsecutivePairs(
               DocumentFeatures(doc)[1].geometry[1].coordinates.ring))

\* the primitives a feature is to give, named by kind and place: one segment
\* per consecutive pair that does not coincide, for a LineString with at
\* least 2 points and a resolvable radius; one arc or disk at its centre, for
\* a Point tagged ARC with a resolvable radius; nothing for any other feature
RECURSIVE ValidPairs(_, _)
ValidPairs(ps, i) ==
    IF i > Len(ps) - 1 THEN <<>>
    ELSE (IF Apart(ps[i], ps[i + 1])
          THEN <<[kind |-> "segment", a |-> ps[i], b |-> ps[i + 1]]>>
          ELSE <<>>)
         \o ValidPairs(ps, i + 1)

IsTaggedArc(f) ==
    /\ f.geometry # <<>>
    /\ f.geometry[1].type = PointType
    /\ f.geometry[1].coordinates.kind = "position"
    /\ Len(f.geometry[1].coordinates.pos) = 2
    /\ Get(BagOf(f), "_type") = ARC
    /\ Positive(chooseRadius(BagOf(f)))

RequestsOf(f) ==
    IF IsPipeLine(f) THEN ValidPairs(f.geometry[1].coordinates.pts, 1)
    ELSE IF IsTaggedArc(f)
      THEN <<[kind |-> "point", a |-> f.geometry[1].coordinates.pos,
              b |-> f.geometry[1].coordinates.pos]>>
    ELSE <<>>

RECURSIVE RequestsOfAll(_, _)
RequestsOfAll(fs, i) ==
    IF i > Len(fs) THEN <<>>
    ELSE RequestsOf(fs[i]) \o RequestsOfAll(fs, i + 1)

\* the kind and place of a built primitive
Placed(m) ==
    IF m.endpoints # <<>>
    THEN [kind |-> "segment",
          x1 |-> m.endpoints[1].x1, y1 |-> m.endpoints[1].y1,
          x2 |-> m.endpoints[1].x2, y2 |-> m.endpoints[1].y2]
    ELSE [kind |-> "point",
          x1 |-> m.position[1], y1 |-> m.position[3],
          x2 |-> m.position[1], y2 |-> m.position[3]]

PlaceOf(q) ==
    [kind |-> q.kind, x1 |-> At(q.a, 1), y1 |-> At(q.a, 2),
     x2 |-> At(q.b, 1), y2 |-> At(q.b, 2)]

\* the features C9 lists: valid ones, an unsupported geometry type, a Point
\* without _type ARC, a LineString with fewer than 2 points, an unresolvable
\* radius, a coordinate pair that coincides.  (Left out: a coordinate with
\* a number missing, coordinates nested in a ring, a LineString whose
\* coordinates are one bare position.)
WholePositions(ps) == \A i \in 1..Len(ps) : Len(ps[i]) = 2

ListedFeature(f) ==
    \/ f.geometry = <<>>
    \/ /\ f.geometry # <<>>
       /\ \/ f.geometry[1].type = PolygonType
          \/ /\ f.geometry[1].type = PointType
             /\ f.geometry[1].coordinates.kind = "position"
             /\ Len(f.geometry[1].coordinates.pos) = 2
          \/ /\ f.geometry[1].type = LineStringType
             /\ f.geometry[1].coordinates.kind \in {"positions", "absent"}
             /\ WholePositions(f.geometry[1].coordinates.pts)

ListedDocument(d) ==
    \A i \in 1..Len(DocumentFeatures(d)) : ListedFeature(DocumentFeatures(d)[i])

\* C9: a document mixing valid features with features of the listed invalid
\* kinds raises no error, and its container holds exactly the primitives of
\* the valid requests, in document order; an invalid request gives no
\* primitive and does not stop later features.
C9_PartialResult ==
    (ret.status # "none" /\ ListedDocument(doc)) =>
      /\ ret.status = "returned"
      /\ Len(children) = Len(RequestsOfAll(DocumentFeatures(doc), 1))
      /\ \A i \in 1..Len(children) :
            Placed(children[i]) = PlaceOf(RequestsOfAll(DocumentFeatures(doc), 1)[i])
      /\ children # <<>> => ret.group = "Group"

\* C9 witness: a loaded collection whose first feature is invalid and whose
\* second feature is valid, with the primitives of the second.
C9_Witness ==
    /\ Loaded
    /\ ListedDocument(doc)
    /\ doc.type = FeatureCollectionType
    /\ Len(doc.features) = 2
    /\ RequestsOf(doc.features[1]) = <<>>
    /\ RequestsOf(doc.features[2]) # <<>>
    /\ Len(children) = Len(RequestsOf(doc.features[2]))

\* the meshes of every feature, in order
RECURSIVE MeshesOfAll(_, _)
MeshesOfAll(fs, i) ==
    IF i > Len(fs) THEN <<>>
    ELSE meshesFromFeature(fs[i]).meshes \o MeshesOfAll(fs, i + 1)

\* C10: the pair {group: null, bounds: null} is returned exactly when no
\* primitive was produced; a FeatureCollection is processed through its
\* features, a Feature as a collection of one, and a document of another
\* type, or a null document, gives the null pair.
C10_NullPairIffEmpty ==
    Loaded =>
      /\ ret \in {NullPair, GroupPair}
      /\ ret = NullPair <=> children = <<>>
      /\ ret = NullPair <=> MeshesOfAll(DocumentFeatures(doc), 1) = <<>>
      /\ children = MeshesOfAll(DocumentFeatures(doc), 1)
      /\ (doc.isNull \/ doc.type \notin {FeatureCollectionType, FeatureType})
            => ret = NullPair

\* C10 witness: a collection with features, none of them valid, gave the
\* null pair.
C10_Witness ==
    /\ Loaded
    /\ doc.type = FeatureCollectionType
    /\ Len(doc.features) >= 1
    /\ ret = NullPair

(***************************************************************************)
(* Properties of chooseRadius (checked under RadiusSpec)                   *)
(***************************************************************************)
Coerced(key) == toNumber(Get(props, key))

\* C8: chooseRadius returns the coerced radius if it is finite and > 0,
\* otherwise diameter / 2 if the coerced diameter is finite and > 0,
\* otherwise a NaN or non-positive value; the chosen value is divided by
\* 1000 exactly when it is above 1.0.  Radius 1.5 gives 0.0015, radius 0.5
\* gives 0.5, diameter 300 gives 0.15.
C8_RadiusChoice ==
    radius # <<>> =>
      /\ Positive(Coerced("radius")) =>
            radius[1] = (IF Coerced("radius").v > Scale
                         THEN Fin(Coerced("radius").v \div 1000)
                         ELSE Coerced("radius"))
      /\ (~Positive(Coerced("radius")) /\ Positive(Coerced("diameter"))) =>
            radius[1] = (IF Coerced("diameter").v \div 2 > Scale
                         THEN Fin((Coerced("diameter").v \div 2) \div 1000)
                         ELSE Fin(Coerced("diameter").v \div 2))
      /\ (~Positive(Coerced("radius")) /\ ~Positive(Coerced("diameter"))) =>
            ~Positive(radius[1])
      /\ props = ("radius" :> JsNum(OneAndHalf)) => radius[1] = Fin(1500)
      /\ props = ("radius" :> JsNum(Half)) => radius[1] = Half
      /\ props = ("radius" :> JsNum(Whole(1))) => radius[1] = Whole(1)
      /\ props = ("diameter" :> JsNum(Whole(300))) => radius[1] = Fin(150000)

\* C8 witness: chooseRadius was applied to {radius: 1.0}, the value at the
\* unit threshold.
C8_Witness ==
    /\ radius # <<>>
    /\ props = ("radius" :> JsNum(Whole(1)))

(***************************************************************************)
(* Properties of rebuildPipeMeshFromUserData (checked under Spec)          *)
(***************************************************************************)
\* the step is a call of rebuildPipeMeshFromUserData on primitive i
RebuildStepOf(i) ==
    /\ ret.status = "returned"
    /\ i \in 1..Len(children)
    /\ lastCall'.op = "rebuild"
    /\ lastCall'.target = i

HasDigit(cs) == \E k \in 1..Len(cs) : IsDigit(cs[k])

\* a property value that is no number: absent, null, or text without a digit
NonNumeric(v) ==
    \/ v.kind \in {"undefined", "null"}
    \/ v.kind = "string" /\ ~HasDigit(v.str)

\* a property value that is a number, or text that spells one
Numeric(v) ==
    \/ v.kind = "number" /\ isFinite(v.num)
    \/ v.kind = "string" /\ HasDigit(v.str) /\ isFinite(toNumber(v))

IsArc(m) == m.geometry.type = "BufferGeometry"
IsDisk(m) == m.geometry.type = "CircleGeometry"

ResolvedArcData(p) ==
    <<[startAngle |-> toNumber(Get(p, "startAngle")),
       endAngle |-> toNumber(Get(p, "endAngle")),
       radius |-> chooseRadius(p)]>>

\* C3: a rebuild of a primitive stamped with arcData, whose radius resolves,
\* turns it into a disk without arcData when properties.endAngle is not
\* numeric, and into an arc with arcData = {startAngle, endAngle, radius}
\* resolved from the current properties when both angles are numeric.
C3_ModeSwitch ==
    [][\A i \in 1..Len(children) :
         (/\ RebuildStepOf(i)
          /\ children[i].arcData # <<>>
          /\ Positive(chooseRadius(children[i].properties)))
         => /\ NonNumeric(Get(children[i].properties, "endAngle"))
                 => (IsDisk(children'[i]) /\ children'[i].arcData = <<>>)
            /\ (/\ Numeric(Get(children[i].properties, "startAngle"))
                /\ Numeric(Get(children[i].properties, "endAngle")))
                 => /\ IsArc(children'[i])
                    /\ children'[i].arcData
                         = ResolvedArcData(children[i].properties)]_vars

\* the buffer the primitive's geometry field names after k events of a call
ReferencedAfter(log, k) ==
    IF \E j \in 1..k : log[j] = "install new" THEN "new" ELSE "old"

\* the buffers not yet released after k events of a call
LiveAfter(log, k) ==
    ({"old"} \cup (IF \E j \in 1..k : log[j] = "allocate new"
                   THEN {"new"} ELSE {}))
    \ (IF \E j \in 1..k : log[j] = "dispose old" THEN {"old"} ELSE {})

IndexOf(log, e) == CHOOSE k \in 1..Len(log) : log[k] = e

Successful == lastCall.op \in {"rebuild", "edit"} /\ lastCall.log # <<>>

Releases(log) == Cardinality({k \in 1..Len(log) : log[k] = "dispose old"})

LengthOf(m) ==
    Hypot(Sub(m.endpoints[1].x2, m.endpoints[1].x1),
          Sub(m.endpoints[1].y2, m.endpoints[1].y1))

\* the radius or the segment length is no finite positive number
InvalidDims(m) ==
    \/ ~Positive(chooseRadius(m.properties))
    \/ m.arcData = <<>> /\ m.endpoints # <<>> /\ ~Positive(LengthOf(m))

\* C6: a rebuild of a segment or arc primitive whose radius does not resolve
\* to a finite positive number (or whose segment length is not finite and
\* positive) releases nothing and leaves the primitive as it was: buffer,
\* orientation, position, colour and arcData.
C6_AbortLeavesUnchanged ==
    [][\A i \in 1..Len(children) :
         (/\ RebuildStepOf(i)
          /\ children[i].arcData # <<>> \/ children[i].endpoints # <<>>
          /\ InvalidDims(children[i]))
         => /\ children'[i] = children[i]
            /\ lastCall'.log = <<>>]_vars

\* C6 witness: a rebuild was called on a segment whose radius had been
\* edited to a value that does not resolve, and it released nothing.
C6_Witness ==
    /\ lastCall.op = "rebuild"
    /\ lastCall.log = <<>>
    /\ children[lastCall.target].endpoints # <<>>
    /\ Positive(LengthOf(children[lastCall.target]))
    /\ ~Positive(chooseRadius(children[lastCall.target].properties))

\* C6 witness for arcs: the same on a primitive stamped with arcData.
C6_WitnessArc ==
    /\ lastCall.op = "rebuild"
    /\ lastCall.log = <<>>
    /\ children[lastCall.target].arcData # <<>>
    /\ ~Positive(chooseRadius(children[lastCall.target].properties))

\* C7: a second call of rebuildPipeMeshFromUserData on the same primitive,
\* with no property written in between, changes nothing: radius, length,
\* orientation, position, colour and arcData are as after the first call.
C7_RebuildIdempotent ==
    [][\A i \in 1..Len(children) :
         (/\ RebuildStepOf(i)
          /\ lastCall.op \in {"rebuild", "edit"}
          /\ lastCall.target = i)
         => children' = children]_vars

\* C7 witness: a segment whose radius 1.5 (millimetres) was rebuilt twice in
\* a row and has radius 0.0015.
C7_Witness ==
    /\ lastCall.op = "rebuild"
    /\ lastCall.streak = 2
    /\ lastCall.log # <<>>
    /\ children[lastCall.target].endpoints # <<>>
    /\ Get(children[lastCall.target].properties, "radius") = JsNum(OneAndHalf)
    /\ children[lastCall.target].geometry.radius = Fin(1500)


\* primitive i as buildPipesGroupFromGeoJSON stamped it
AsBuilt(i) == buildPipesGroupFromGeoJSON(doc).meshes[i]

\* C11: no step after the build changes a primitive's endpoints or layer,
\* so they stay as stamped at build time, and only a property write changes
\* its properties: a call of rebuildPipeMeshFromUserData leaves properties,
\* endpoints and layer as they were, and arcData is the only provenance
\* field it may write.
C11_ProvenanceKept ==
    [][\A i \in 1..Len(children) :
         /\ children'[i].endpoints = children[i].endpoints
         /\ children'[i].layer = children[i].layer
         /\ lastCall'.op = "rebuild"
              => children'[i].properties = children[i].properties]_vars

\* C11 witness: a successful rebuild of a primitive whose properties.layer
\* had been edited away from the layer stamped at build time.
C11_Witness ==
    /\ lastCall.op = "rebuild"
    /\ lastCall.log # <<>>
    /\ LayerOf(children[lastCall.target].properties)
         # children[lastCall.target].layer
    /\ children[lastCall.target].layer = AsBuilt(lastCall.target).layer


CentreOf(m) == <<m.position[1].v \div Scale, m.position[3].v \div Scale>>

\* a fresh build from the primitive's endpoints (or arc centre) and its
\* current properties
FreshOf(m) ==
    IF m.endpoints # <<>>
    THEN SegmentBetween(m.endpoints[1].x1, m.endpoints[1].y1,
                        m.endpoints[1].x2, m.endpoints[1].y2, m.properties)
    ELSE buildArcFromPoint(CentreOf(m), m.properties)

\* same shape kind and dimensions, position, orientation, colour, stroke
\* width and arcData
SameShape(a, b) ==
    /\ a.objType = b.objType
    /\ a.geometry = b.geometry
    /\ a.position = b.position
    /\ a.orientation = b.orientation
    /\ a.material.color = b.material.color
    /\ a.material.linewidth = b.material.linewidth
    /\ a.arcData = b.arcData

SuccessfulRebuildOf(i) == RebuildStepOf(i) /\ lastCall'.log # <<>>

\* C15: after every successful rebuild the primitive is as a fresh build
\* from the same endpoints (or arc centre) and the current properties would
\* make it: shape kind and dimensions, position with its vertical offset,
\* orientation, colour, stroke width, and arcData.
C15_RebuildIsFreshBuild ==
    [][\A i \in 1..Len(children) :
         SuccessfulRebuildOf(i) =>
           /\ FreshOf(children'[i]) # <<>>
           /\ SameShape(children'[i], FreshOf(children'[i])[1])]_vars

\* the same for segment primitives only
C15_SegmentRebuildIsFreshBuild ==
    [][\A i \in 1..Len(children) :
         (SuccessfulRebuildOf(i) /\ children[i].endpoints # <<>>) =>
           /\ FreshOf(children'[i]) # <<>>
           /\ SameShape(children'[i], FreshOf(children'[i])[1])]_vars

\* the same for arcs that stay arcs, position aside
C15_ArcRebuildIsFreshBuildElsewhere ==
    [][\A i \in 1..Len(children) :
         (SuccessfulRebuildOf(i) /\ IsArc(children'[i])) =>
           /\ FreshOf(children'[i]) # <<>>
           /\ SameShape([children'[i] EXCEPT !.position =
                            FreshOf(children'[i])[1].position],
                        FreshOf(children'[i])[1])]_vars

\* an arc whose radius was changed and that was rebuilt as an arc
C15_ArcRadiusCase ==
    /\ lastCall.op = "rebuild"
    /\ lastCall.log # <<>>
    /\ IsArc(children[lastCall.target])
    /\ children[lastCall.target].geometry.radius
         # children[lastCall.target].position[2]

\* an angle of the bag is absent, null, or text without a digit
AngleMissing(p) ==
    NonNumeric(Get(p, "startAngle")) \/ NonNumeric(Get(p, "endAngle"))

\* C16: an angle that is absent, cleared to the empty string or text without
\* a digit counts as missing: a rebuild of an arc primitive whose startAngle
\* or endAngle is such a value, and whose radius resolves, leaves a disk and
\* not an arc with that angle read as 0.
C16_MissingAngleGivesDisk ==
    [][\A i \in 1..Len(children) :
         (/\ RebuildStepOf(i)
          /\ children[i].arcData # <<>>
          /\ isFinite(chooseRadius(children[i].properties))
          /\ chooseRadius(children[i].properties).v > 0
          /\ AngleMissing(children[i].properties))
         => IsDisk(children'[i])]_vars

\* the same for angles that toNumber reads as NaN
C16_NaNAngleGivesDisk ==
    [][\A i \in 1..Len(children) :
         (/\ SuccessfulRebuildOf(i)
          /\ children[i].arcData # <<>>
          /\ \/ ~isFinite(toNumber(Get(children[i].properties, "startAngle")))
             \/ ~isFinite(toNumber(Get(children[i].properties, "endAngle"))))
         => IsDisk(children'[i])]_vars

\* an arc rebuilt as an arc with a cleared startAngle read as 0
C16_ClearedAngleCase ==
    /\ lastCall.op = "rebuild"
    /\ lastCall.log # <<>>
    /\ IsArc(children[lastCall.target])
    /\ Get(children[lastCall.target].properties, "startAngle") = JsStr(<<>>)
    /\ children[lastCall.target].arcData[1].startAngle = Fin(0)

\* C17: rebuildPipeMeshFromUserData dispatches on the stamped provenance
\* only.  A primitive with arcData gets the arc rebuild (it is an arc or a
\* disk afterwards, its endpoints aside), one without arcData but with
\* endpoints gets the segment rebuild, and one with neither is left exactly
\* as it was, whatever its properties hold, valid angles included.
C17_DispatchOnProvenance ==
    [][\A i \in 1..Len(children) :
         RebuildStepOf(i) =>
           /\ (children[i].arcData = <<>> /\ children[i].endpoints = <<>>)
                => (children'[i] = children[i] /\ lastCall'.log = <<>>)
           /\ (children[i].arcData # <<>>)
                => /\ IsArc(children'[i]) \/ IsDisk(children'[i])
                   /\ lastCall'.log # <<>> =>
                        children'[i].material.color
                          = initialColor(children[i].properties)
           /\ (children[i].arcData = <<>> /\ children[i].endpoints # <<>>)
                => /\ IsSegment(children'[i])
                   /\ lastCall'.log # <<>> =>
                        children'[i].geometry
                          = CylinderGeometry(
                              chooseRadius(children[i].properties),
                              children[i].geometry.height)]_vars

\* a disk built in circle mode, given valid angles by two edits, after a
\* rebuild: still the disk of the build, with the edited properties
C17_Witness ==
    /\ lastCall.op = "rebuild"
    /\ children[lastCall.target].arcData = <<>>
    /\ children[lastCall.target].endpoints = <<>>
    /\ IsDisk(children[lastCall.target])
    /\ Numeric(Get(children[lastCall.target].properties, "startAngle"))
    /\ Numeric(Get(children[lastCall.target].properties, "endAngle"))

\* C18: every segment primitive of the container, as built and after any
\* property writes and rebuilds, has a finite strictly positive radius and a
\* finite strictly positive length; a pair of positions whose displacement
\* is no finite number gives no primitive.
C18_SegmentsFinitePositive ==
    \A i \in 1..Len(children) :
      children[i].endpoints # <<>> =>
        /\ Positive(children[i].geometry.radius)
        /\ Positive(children[i].geometry.height)

\* the radius half of it
C18_SegmentRadiusPositive ==
    \A i \in 1..Len(children) :
      children[i].endpoints # <<>> => Positive(children[i].geometry.radius)

\* the length half, for segments whose displacement is a finite number
C18_FiniteSegmentsPositive ==
    \A i \in 1..Len(children) :
      (children[i].endpoints # <<>> /\ isFinite(LengthOf(children[i])))
        => Positive(children[i].geometry.height)

\* a segment of the build whose length is no number, which a rebuild then
\* refused to touch
C18_RefusedByRebuild ==
    /\ lastCall.op = "rebuild"
    /\ lastCall.log = <<>>
    /\ children[lastCall.target].endpoints # <<>>
    /\ Positive(chooseRadius(children[lastCall.target].properties))
    /\ ~isFinite(children[lastCall.target].geometry.height)

(***************************************************************************)
(* Properties of the viewer's handlers (checked under ViewSpec)            *)
(***************************************************************************)
\* the feature export is to emit for a primitive that carries endpoints
ExpectedFeature(m) ==
    [type |-> FeatureType,
     geometry |->
       [type |-> LineStringType,
        coordinates |->
          <<<<JsNum(m.endpoints[1].x1), JsNum(m.endpoints[1].y1)>>,
            <<JsNum(m.endpoints[1].x2), JsNum(m.endpoints[1].y2)>>>>],
     properties |-> m.properties]

RECURSIVE ExpectedFeatures(_, _)
ExpectedFeatures(meshes, i) ==
    IF i > Len(meshes) THEN <<>>
    ELSE (IF meshes[i].endpoints # <<>>
          THEN <<ExpectedFeature(meshes[i])>> ELSE <<>>)
         \o ExpectedFeatures(meshes, i + 1)

\* C13: the exported file holds exactly one Feature per primitive that
\* carries endpoints, in container order, a LineString whose coordinates
\* [[x1,y1],[x2,y2]] are the stamped endpoints and whose properties are the
\* primitive's current property bag, every key included; arcs and disks
\* give no feature.
C13_ExportMatches ==
    lastCall.op = "export" =>
      /\ exported # <<>>
      /\ exported[1].type = FeatureCollectionType
      /\ exported[1].features = ExpectedFeatures(children, 1)

FiniteEndpoints(m) ==
    m.endpoints # <<>> =>
      /\ m.endpoints[1].x1.fin /\ m.endpoints[1].y1.fin
      /\ m.endpoints[1].x2.fin /\ m.endpoints[1].y2.fin

\* the same for a container whose stamped endpoints are all finite numbers
C13_ExportMatchesFinite ==
    (lastCall.op = "export" /\ \A i \in 1..Len(children) :
                                   FiniteEndpoints(children[i])) =>
      /\ exported # <<>>
      /\ exported[1].features = ExpectedFeatures(children, 1)

\* an export after an edit, of a container with two segments
C13_FiniteCase ==
    /\ lastCall.op = "export"
    /\ edits > 0
    /\ Len(exported[1].features) = 2


(***************************************************************************)
(* Properties of the colour resolution (checked under ColourSpec)          *)
(***************************************************************************)
\* the layer rules in their order: the words of each, and its colour
LayerRules ==
    <<[words |-> {<<"U+6C34", "U+9053">>, <<"w", "a", "t", "e", "r">>},
       color |-> Blue],
      [words |-> {<<"U+4E0B", "U+6C34">>, <<"s", "e", "w", "e", "r">>},
       color |-> Brown],
      [words |-> {<<"U+30AC", "U+30B9">>, <<"g", "a", "s">>},
       color |-> Orange],
      [words |-> {<<"U+96FB">>, <<"p", "o", "w", "e", "r">>,
                  <<"c", "a", "b", "l", "e">>},
       color |-> DarkGray]>>

\* the text holds the word somewhere, letter case aside
HoldsWord(text, word) ==
    \E i \in 1..Len(text) :
       /\ i + Len(word) - 1 <= Len(text)
       /\ \A j \in 1..Len(word) :
             LowerChar(text[i + j - 1]) = LowerChar(word[j])

LayerText(p) ==
    IF Get(p, "layer").kind = "string" THEN Get(p, "layer").str ELSE <<>>

RuleMatches(k, p) == \E w \in LayerRules[k].words : HoldsWord(LayerText(p), w)

FirstMatching(p) ==
    CHOOSE k \in 1..Len(LayerRules) :
        RuleMatches(k, p) /\ \A j \in 1..(k - 1) : ~RuleMatches(j, p)

\* C14: when properties.layer matches a layer rule, the resolved colour is
\* that of the first matching rule in the order water, sewer, gas,
\* electrical, matched as a substring whatever the letter case, and it is
\* the same whatever properties.material is; layer U+6C34 U+9053 U+7BA1 with
\* material "steel" gives the water blue.
C14_FirstLayerRuleWins ==
    (colour # <<>> /\ \E k \in 1..Len(LayerRules) : RuleMatches(k, props)) =>
      /\ colour[1] = LayerRules[FirstMatching(props)].color
      /\ \A m \in MaterialTexts :
            initialColor(("material" :> m) @@ props) = colour[1]
      /\ Get(props, "layer") = WaterPipeLayer => colour[1] = Blue

\* C14 witness: the colour of a layer that matches both the water and the gas
\* rule, with a material that has a rule of its own, was resolved.
C14_Witness ==
    /\ colour # <<>>
    /\ RuleMatches(1, props)
    /\ RuleMatches(3, props)
    /\ Get(props, "material") = Steel
    /\ colour[1] = Blue


\* C19: colour changes survive deselection.  A click applies no colour, so
\* the material colour of every segment primitive that is not highlighted
\* after the click is the colour it had before it, the one most recently
\* applied by a rebuild or a layer colour change: clearing the highlight
\* restores no older colour.
C19_ColourSurvivesDeselect ==
    [][lastCall'.op = "click" =>
         \A i \in 1..Len(children) :
           (IsCylinderMesh(children[i]) /\ highlighted' # i)
             => children'[i].material.color = children[i].material.color]_vars

\* the same for the primitives that were not highlighted before the click
C19_OthersKeepColour ==
    [][lastCall'.op = "click" =>
         \A i \in 1..Len(children) :
           (IsCylinderMesh(children[i]) /\ highlighted # i)
             => children'[i].material.color = children[i].material.color]_vars

\* a deselected primitive whose layer is gas and whose colour is not the gas
\* colour its last rebuild applied
C19_StaleColourCase ==
    /\ lastCall.op = "click"
    /\ highlighted = 0
    /\ \E i \in 1..Len(children) :
         /\ i \in editedMeshIds
         /\ Get(children[i].properties, "layer") = GasLayer
         /\ children[i].material.color # initialColor(children[i].properties)


\* visible exactly when the layer is not switched off and show-only-edited is
\* off or the primitive was edited
VisibleAsRuled(i) ==
    children[i].visible
      = (LayerVisible(ObjLayer(children[i]))
           /\ (~showOnlyEdited \/ i \in editedMeshIds))

\* C20: after any layer-visibility toggles, show-only-edited toggles,
\* selections and edits, every segment primitive is visible exactly when its
\* layer is not switched off and (show-only-edited is off or the primitive
\* has been edited).
C20_VisibilityRule ==
    \A i \in 1..Len(children) :
      IsCylinderMesh(children[i]) => VisibleAsRuled(i)

\* the rule right after each of the two toggles
C20_RuleAfterToggles ==
    [][lastCall'.op \in {"visibility", "only-edited"} =>
         \A i \in 1..Len(children) :
           (/\ IsCylinderMesh(children'[i])
            /\ lastCall'.op = "visibility" =>
                 LayerVisible(ObjLayer(children[i]))'
                   # LayerVisible(ObjLayer(children[i])))
             => VisibleAsRuled(i)']_vars

\* a primitive selected while visible, hidden by show-only-edited, then
\* edited: edited, its layer shown, and still invisible
C20_EditedInvisibleCase ==
    /\ lastCall.op = "edit"
    /\ showOnlyEdited
    /\ selected \in editedMeshIds
    /\ LayerVisible(ObjLayer(children[selected]))
    /\ ~children[selected].visible

====
